---- MODULE Spec2Model ----
(***************************************************************************)
(* A model of the venue-matching engine of fest-finesse                    *)
(* (src/src/utils/venueSelection.ts, class VenueSelectionAlgorithm) and of *)
(* the two pages that drive it and the events table                        *)
(* (src/src/pages/AddEvent.tsx, components AddEvent and Admin).            *)
(*                                                                         *)
(* Strings are TLA+ strings (sequences of characters); the JavaScript      *)
(* string methods the engine uses (includes, split, toLowerCase, the       *)
(* relational operators, template literals, join) are operators below.     *)
(*                                                                         *)
(* Numbers: the score is a real number in the source,                      *)
(*     100 - (area / requiredArea - 1) * 20  (+ 50 + 30 + 20 + 10).        *)
(* Every score of one findBestVenues call has the same denominator,        *)
(* requiredArea = participants * 6, so the model keeps every score         *)
(* multiplied by requiredArea, as an exact integer ("scaled points").      *)
(* Comparisons of scores of one call are unchanged by the scaling.         *)
(* Floating-point rounding is not modelled.                                *)
(***************************************************************************)
EXTENDS Integers, Sequences, FiniteSets, TLC

VARIABLES
    venues,   \* this.venues: the catalog the algorithm object was built with
    env,      \* the runtime's locale environment: time zone, midnight format
    op,       \* the public method whose call is the current one, or "idle"
    args,     \* the arguments of the current call
    ret,      \* the value the current call returned
    held,     \* the array of an earlier getSuggestedTimeSlots call that the
              \* caller kept, as it is now: <<array>>, or <<>> if none
    \* the state of the AddEvent page (the event wizard)
    step,            \* the wizard's step, 0 when the page is not mounted
    formData,        \* the form
    venueMatches,    \* the exact matches on display
    shownAlternatives, \* the alternatives on display (state alternatives)
    loading,         \* the loading flag of the mounted page
    venuesRequest,   \* the select on the venues table: none, pending, done,
                     \* error
    eventInsert,     \* the insert into the events table: its status and row
    \* the state of the Admin page
    events,          \* the events on display
    eventsTable,     \* the rows of the events table
    updatingEventId, \* the event whose buttons are disabled, or "null"
    updates          \* the updateEventStatus calls started so far

engineVars == <<venues, env, op, args, ret, held>>
wizardVars ==
    <<step, formData, venueMatches, shownAlternatives, loading,
      venuesRequest, eventInsert>>
adminVars == <<events, eventsTable, updatingEventId, updates>>
vars == <<engineVars, wizardVars, adminVars>>

----------------------------------------------------------------------------
(* JavaScript strings *)

\* s.charAt(i - 1)
CharAt(s, i) == SubSeq(s, i, i)

\* s.includes(t)
Includes(s, t) ==
    \E i \in 0..(Len(s) - Len(t)) : SubSeq(s, i + 1, i + Len(t)) = t

UpperToLower ==
    [A |-> "a", B |-> "b", C |-> "c", D |-> "d", E |-> "e", F |-> "f",
     G |-> "g", H |-> "h", I |-> "i", J |-> "j", K |-> "k", L |-> "l",
     M |-> "m", N |-> "n", O |-> "o", P |-> "p", Q |-> "q", R |-> "r",
     S |-> "s", T |-> "t", U |-> "u", V |-> "v", W |-> "w", X |-> "x",
     Y |-> "y", Z |-> "z"]

LowerChar(c) == IF c \in DOMAIN UpperToLower THEN UpperToLower[c] ELSE c

\* s.toLowerCase()
RECURSIVE ToLowerCase(_)
ToLowerCase(s) ==
    IF s = "" THEN "" ELSE LowerChar(Head(s)) \o ToLowerCase(Tail(s))

\* s.split(sep), sep one character
RECURSIVE Split(_, _)
Split(s, sep) ==
    IF \E i \in 1..Len(s) : CharAt(s, i) = sep
    THEN LET i == CHOOSE j \in 1..Len(s) :
                      /\ CharAt(s, j) = sep
                      /\ \A k \in 1..(j - 1) : CharAt(s, k) # sep
         IN  <<SubSeq(s, 1, i - 1)>> \o Split(SubSeq(s, i + 1, Len(s)), sep)
    ELSE <<s>>

\* The characters the model's strings are made of, in code-unit order.
CodeUnitOrder ==
    " ,-.0123456789:ABCDEFGHIJKLMNOPQRSTUVWXYZabcdefghijklmnopqrstuvwxyz"

\* The rank of a character's code unit (order-isomorphic to the code unit).
CodeUnit(c) ==
    CHOOSE i \in 1..Len(CodeUnitOrder) : CharAt(CodeUnitOrder, i) = c

\* a <= b on strings: lexicographic by code unit, a prefix first
RECURSIVE StrLE(_, _)
StrLE(a, b) ==
    IF a = "" THEN TRUE
    ELSE IF b = "" THEN FALSE
    ELSE IF Head(a) = Head(b) THEN StrLE(Tail(a), Tail(b))
    ELSE CodeUnit(Head(a)) < CodeUnit(Head(b))

\* items.join(sep)
RECURSIVE Join(_, _)
Join(items, sep) ==
    IF Len(items) = 0 THEN ""
    ELSE IF Len(items) = 1 THEN items[1]
    ELSE items[1] \o sep \o Join(Tail(items), sep)

\* arrays.flat()
RECURSIVE Flat(_)
Flat(arrays) ==
    IF Len(arrays) = 0 THEN <<>> ELSE arrays[1] \o Flat(Tail(arrays))

Digits == "0123456789"
DigitChar(d) == CharAt(Digits, d + 1)
IsDigit(c) == \E d \in 0..9 : DigitChar(d) = c
DigitVal(c) == CHOOSE d \in 0..9 : DigitChar(d) = c

\* a two-digit field of a date or a time, zero padded
Pad2(n) == DigitChar(n \div 10) \o DigitChar(n % 10)
\* the value of a two-digit field
Num2(s) == DigitVal(CharAt(s, 1)) * 10 + DigitVal(CharAt(s, 2))

Abs(x) == IF x < 0 THEN -x ELSE x
Max(a, b) == IF a >= b THEN a ELSE b

----------------------------------------------------------------------------
(* Dates.  preferredDateTime is "YYYY-MM-DD HH:MM", which new Date() reads   *)
(* as local time.  All instants of the model lie inside September 2025, so   *)
(* an instant is a number of minutes since 2025-09-00T00:00Z and the year    *)
(* and month of a date never change.  env.tzOffset is the local zone's       *)
(* offset from UTC in minutes (local = UTC + tzOffset); env.midnight24 says  *)
(* whether the runtime's en-US hour12:false format writes the hour after     *)
(* midnight as "24" (hour cycle h24) or as "00" (h23).                       *)

MinutesPerDay == 24 * 60

\* new Date(requestedDateTime): the instant, in minutes
NewDate(dateTime, e) ==
    Num2(SubSeq(dateTime, 9, 10)) * MinutesPerDay
        + Num2(SubSeq(dateTime, 12, 13)) * 60
        + Num2(SubSeq(dateTime, 15, 16))
        - e.tzOffset

\* instant.toISOString().split('T')[0]: the UTC calendar date
ToISODate(dateTime, e) ==
    SubSeq(dateTime, 1, 8) \o Pad2(NewDate(dateTime, e) \div MinutesPerDay)

\* instant.toLocaleTimeString('en-US', {hour12: false, hour: '2-digit',
\* minute: '2-digit'}): the local time of day
ToLocaleTimeString(dateTime, e) ==
    LET local == (NewDate(dateTime, e) + e.tzOffset) % MinutesPerDay
        hour == local \div 60
    IN  Pad2(IF hour = 0 /\ e.midnight24 THEN 24 ELSE hour)
            \o ":" \o Pad2(local % 60)

\* new Date(`2000-01-01 ${time}`).getTime() for a time "HH:MM", in
\* milliseconds since local midnight of the reference day
GetTime(time) ==
    (Num2(SubSeq(time, 1, 2)) * 60 + Num2(SubSeq(time, 4, 5))) * 60 * 1000

\* whether `2000-01-01 ${time}` is a date the runtime can read: "HH:MM"
IsClockTime(time) ==
    /\ Len(time) = 5
    /\ \A i \in {1, 2, 4, 5} : IsDigit(CharAt(time, i))
    /\ CharAt(time, 3) = ":"
    /\ Num2(SubSeq(time, 1, 2)) < 24
    /\ Num2(SubSeq(time, 4, 5)) < 60

----------------------------------------------------------------------------
(* The inputs of the model *)

Venue(id, area, capacity, facilities, slots, nulls) ==
    [id |-> id, area_sqft |-> area, capacity |-> capacity,
     facilities |-> facilities, booked_slots |-> slots, nulls |-> nulls]

\* The venue rows catalogs are made of.
Pool ==
    << Venue("hall", 1000, 150, <<"WiFi", "AC">>,
             <<"2025-09-26 10:00-12:00">>, {}),
       Venue("lab", 600, 100, <<"Projector", "AC", "High-Speed WiFi">>,
             <<>>, {"booked_slots"}),
       Venue("library", 2400, 300, <<"Projector", "WiFi">>,
             <<"2025-09-27 16:00-17:00", "2025-09-26 00:00-01:00">>, {}),
       Venue("court", 3000, 250, <<"AC", "Projector", "WiFi">>,
             <<"2025-09-26 09:00-10:00", "2025-09-27 08:00-18:00">>, {}),
       Venue("studio", 1500, 200, <<>>, <<"2025-09-26 10:00-12:00">>,
             {"facilities"}),
       Venue("classroom", 500, 100, <<>>,
             <<"2025-09-26T10:00-12:00", "2025-09-26 11:00">>, {}),
       Venue("auditorium", 9000, 800,
             <<"Stage", "Projector", "Sound System", "AC">>,
             <<"2025-09-26 10:00-12:00", "2025-09-26 14:00-16:00">>, {}) >>

\* The most venues a catalog holds.
MaxVenues == 5

\* the venues of Pool at the indices S, in Pool order
RECURSIVE InPoolOrder(_)
InPoolOrder(S) ==
    IF S = {} THEN <<>>
    ELSE LET i == CHOOSE j \in S : \A k \in S : j <= k
         IN  <<Pool[i]>> \o InPoolOrder(S \ {i})

Reverse(items) == [i \in 1..Len(items) |-> items[Len(items) + 1 - i]]

\* Every choice of at most MaxVenues venues, in Pool order or reversed.
Catalogs ==
    LET chosen == {S \in SUBSET (1..Len(Pool)) : Cardinality(S) <= MaxVenues}
    IN  {InPoolOrder(S) : S \in chosen}
            \cup {Reverse(InPoolOrder(S)) : S \in chosen}

\* Alaska (daylight time), UTC, New Zealand (standard time)
TimeZoneOffsets == {-480, 0, 720}

Environments == [tzOffset : TimeZoneOffsets, midnight24 : BOOLEAN]

Requirements ==
    [participants : {100, 250},
     facilitiesRequired :
         {<<>>, <<"wifi">>, <<"Projector", "High-Speed WiFi">>},
     preferredDateTime :
         {"2025-09-26 00:30", "2025-09-26 10:00", "2025-09-26 11:00",
          "2025-09-26 16:00"},
     priority : {"high", "medium", "low"}]

RequestedDates == {"2025-09-26", "2025-09-27"}

\* the members of a set, listed in some fixed order
RECURSIVE ListOf(_)
ListOf(S) ==
    IF S = {} THEN <<>>
    ELSE LET x == CHOOSE y \in S : TRUE IN <<x>> \o ListOf(S \ {x})

IndexIn(list, x) == CHOOSE i \in 1..Len(list) : list[i] = x

EnvironmentsList == ListOf(Environments)
RequirementsList == ListOf(Requirements)
RequestedDatesList == ListOf(RequestedDates)

----------------------------------------------------------------------------
(* Venues.  A venue row has nullable facilities and booked_slots columns;   *)
(* venue.nulls names the columns that are null (their value is then <<>>).   *)

IsNull(venue, column) == column \in venue.nulls

\* calculateRequiredArea
CalculateRequiredArea(participants) == participants * 6

\* the test of booked_slots.some(...) in isVenueAvailable
SlotCovers(slot, requestedDate, requestedTime) ==
    IF Includes(slot, requestedDate)
    THEN LET parts == Split(slot, " ")
         IN  IF Len(parts) >= 2 /\ parts[2] # "" /\ Includes(parts[2], "-")
             THEN LET range == Split(parts[2], "-")
                      startTime == range[1]
                      endTime == range[2]
                  IN  StrLE(startTime, requestedTime)
                          /\ StrLE(requestedTime, endTime)
             ELSE FALSE
    ELSE FALSE

\* isVenueAvailable
IsVenueAvailable(venue, requestedDateTime, e) ==
    IF IsNull(venue, "booked_slots") \/ Len(venue.booked_slots) = 0
    THEN TRUE
    ELSE LET requestedDate == ToISODate(requestedDateTime, e)
             requestedTime == ToLocaleTimeString(requestedDateTime, e)
         IN  ~ \E i \in 1..Len(venue.booked_slots) :
                   SlotCovers(venue.booked_slots[i], requestedDate,
                              requestedTime)

\* a test that looks for the required label in the venue's label only
FacilityMatchesOneWay(available, required) ==
    Includes(ToLowerCase(available), ToLowerCase(required))

\* the test of venue.facilities.some(...) in hasFacilities
FacilityMatches(available, required) ==
    \/ Includes(ToLowerCase(available), ToLowerCase(required))
    \/ Includes(ToLowerCase(required), ToLowerCase(available))

\* hasFacilities
HasFacilities(venue, requiredFacilities) ==
    IF Len(requiredFacilities) = 0 THEN TRUE
    ELSE IF IsNull(venue, "facilities") \/ Len(venue.facilities) = 0
    THEN FALSE
    ELSE \A r \in 1..Len(requiredFacilities) :
             \E f \in 1..Len(venue.facilities) :
                 FacilityMatches(venue.facilities[f], requiredFacilities[r])

\* a score whose area term is rounded to a whole number of points
CalculateScoreRounded(venue, requirements, isAvailable, hasFacilities, areaMatch) ==
    LET requiredArea == CalculateRequiredArea(requirements.participants)
        areaTerm == Max(0, 120 * requiredArea - 20 * venue.area_sqft)
    IN  (IF areaMatch
         THEN ((2 * areaTerm + requiredArea) \div (2 * requiredArea))
                  * requiredArea
         ELSE 0)
        + (IF isAvailable THEN 50 * requiredArea ELSE 0)
        + (IF hasFacilities THEN 30 * requiredArea ELSE 0)
        + (IF venue.capacity >= requirements.participants
           THEN 20 * requiredArea ELSE 0)
        + (IF requirements.priority = "high" THEN 10 * requiredArea ELSE 0)

\* a score whose area term is not cut at 0
CalculateScoreUnclamped(venue, requirements, isAvailable, hasFacilities, areaMatch) ==
    LET requiredArea == CalculateRequiredArea(requirements.participants)
    IN  (IF areaMatch
         THEN 120 * requiredArea - 20 * venue.area_sqft ELSE 0)
        + (IF isAvailable THEN 50 * requiredArea ELSE 0)
        + (IF hasFacilities THEN 30 * requiredArea ELSE 0)
        + (IF venue.capacity >= requirements.participants
           THEN 20 * requiredArea ELSE 0)
        + (IF requirements.priority = "high" THEN 10 * requiredArea ELSE 0)

\* a score whose area term has no penalty for oversized venues
CalculateScoreNoPenalty(venue, requirements, isAvailable, hasFacilities, areaMatch) ==
    LET requiredArea == CalculateRequiredArea(requirements.participants)
    IN  (IF areaMatch THEN 100 * requiredArea ELSE 0)
        + (IF isAvailable THEN 50 * requiredArea ELSE 0)
        + (IF hasFacilities THEN 30 * requiredArea ELSE 0)
        + (IF venue.capacity >= requirements.participants
           THEN 20 * requiredArea ELSE 0)
        + (IF requirements.priority = "high" THEN 10 * requiredArea ELSE 0)

\* a score whose priority bonus is given only to venues of adequate area
CalculateScoreBonusIfFits(venue, requirements, isAvailable, hasFacilities, areaMatch) ==
    LET requiredArea == CalculateRequiredArea(requirements.participants)
    IN  (IF areaMatch
         THEN Max(0, 120 * requiredArea - 20 * venue.area_sqft) ELSE 0)
        + (IF isAvailable THEN 50 * requiredArea ELSE 0)
        + (IF hasFacilities THEN 30 * requiredArea ELSE 0)
        + (IF venue.capacity >= requirements.participants
           THEN 20 * requiredArea ELSE 0)
        + (IF requirements.priority = "high" /\ areaMatch
           THEN 10 * requiredArea ELSE 0)

\* a score whose bonuses are skipped when the area does not match
CalculateScoreShortCircuit(venue, requirements, isAvailable, hasFacilities, areaMatch) ==
    LET requiredArea == CalculateRequiredArea(requirements.participants)
    IN  IF ~ areaMatch
        THEN (IF requirements.priority = "high"
              THEN 10 * requiredArea ELSE 0)
        ELSE Max(0, 120 * requiredArea - 20 * venue.area_sqft)
             + (IF isAvailable THEN 50 * requiredArea ELSE 0)
             + (IF hasFacilities THEN 30 * requiredArea ELSE 0)
             + (IF venue.capacity >= requirements.participants
                THEN 20 * requiredArea ELSE 0)
             + (IF requirements.priority = "high"
                THEN 10 * requiredArea ELSE 0)

\* calculateScore, in scaled points (points * requiredArea):
\* Math.max(0, 100 - (area / requiredArea - 1) * 20) * requiredArea
\*     = Math.max(0, 120 * requiredArea - 20 * area)
CalculateScore(venue, requirements, isAvailable, hasFacilities, areaMatch) ==
    LET requiredArea == CalculateRequiredArea(requirements.participants)
    IN  (IF areaMatch
         THEN Max(0, 120 * requiredArea - 20 * venue.area_sqft) ELSE 0)
        + (IF isAvailable THEN 50 * requiredArea ELSE 0)
        + (IF hasFacilities THEN 30 * requiredArea ELSE 0)
        + (IF venue.capacity >= requirements.participants
           THEN 20 * requiredArea ELSE 0)
        + (IF requirements.priority = "high" THEN 10 * requiredArea ELSE 0)

PerfectMatch ==
    "Perfect match: Adequate space, available, and has required facilities"
BookedReason == "Venue is booked at requested time"

\* a filter that finds no required facility missing
MissingFacilitiesNone(venue, requirements) == <<>>

\* the filter of the 'Missing facilities' branch of findBestVenues
MissingFacilities(venue, requirements) ==
    LET NoneIncludes(req) ==
            ~ (/\ ~ IsNull(venue, "facilities")
               /\ \E f \in 1..Len(venue.facilities) :
                      Includes(ToLowerCase(venue.facilities[f]),
                               ToLowerCase(req)))
    IN  SelectSeq(requirements.facilitiesRequired, NoneIncludes)

\* a reason chain that calls a venue lacking facilities a perfect match
ReasonForgetsFacilities(venue, requirements, areaMatch, isAvailable, hasFacilities) ==
    LET requiredArea == CalculateRequiredArea(requirements.participants)
    IN  IF areaMatch /\ isAvailable THEN PerfectMatch
        ELSE IF ~ areaMatch
        THEN "Too small: Needs " \o ToString(requiredArea)
                 \o " sq ft, has " \o ToString(venue.area_sqft) \o " sq ft"
        ELSE BookedReason

\* a reason chain that tests the booking before the area
ReasonBookedFirst(venue, requirements, areaMatch, isAvailable, hasFacilities) ==
    LET requiredArea == CalculateRequiredArea(requirements.participants)
    IN  IF areaMatch /\ isAvailable /\ hasFacilities THEN PerfectMatch
        ELSE IF ~ isAvailable THEN BookedReason
        ELSE IF ~ areaMatch
        THEN "Too small: Needs " \o ToString(requiredArea)
                 \o " sq ft, has " \o ToString(venue.area_sqft) \o " sq ft"
        ELSE "Missing facilities: "
                 \o Join(MissingFacilities(venue, requirements), ", ")

\* the reason chain of findBestVenues
Reason(venue, requirements, areaMatch, isAvailable, hasFacilities) ==
    LET requiredArea == CalculateRequiredArea(requirements.participants)
    IN  IF areaMatch /\ isAvailable /\ hasFacilities THEN PerfectMatch
        ELSE IF ~ areaMatch
        THEN "Too small: Needs " \o ToString(requiredArea)
                 \o " sq ft, has " \o ToString(venue.area_sqft) \o " sq ft"
        ELSE IF ~ isAvailable THEN BookedReason
        ELSE IF ~ hasFacilities
        THEN "Missing facilities: "
                 \o Join(MissingFacilities(venue, requirements), ", ")
        ELSE ""

\* an alternative flag that forgets the facilities check
IsAlternativeNoFacilities(areaMatch, isAvailable, hasFacilities) ==
    ~ areaMatch \/ ~ isAvailable

\* the alternative flag of a VenueMatch
IsAlternative(areaMatch, isAvailable, hasFacilities) ==
    ~ areaMatch \/ ~ isAvailable \/ ~ hasFacilities

\* checks whose area test wants more than the required area
ChecksStrictArea(venue, requirements, e) ==
    [areaMatch |->
         venue.area_sqft
             > CalculateRequiredArea(requirements.participants),
     isAvailable |->
         IsVenueAvailable(venue, requirements.preferredDateTime, e),
     hasFacilities |-> HasFacilities(venue, requirements.facilitiesRequired)]

\* the three checks findBestVenues makes of a venue
Checks(venue, requirements, e) ==
    [areaMatch |->
         venue.area_sqft
             >= CalculateRequiredArea(requirements.participants),
     isAvailable |->
         IsVenueAvailable(venue, requirements.preferredDateTime, e),
     hasFacilities |-> HasFacilities(venue, requirements.facilitiesRequired)]

\* the VenueMatch findBestVenues builds from the checks
VenueMatch(venue, requirements, checks) ==
    [venue |-> venue,
     score |-> CalculateScore(venue, requirements, checks.isAvailable,
                              checks.hasFacilities, checks.areaMatch),
     reason |-> Reason(venue, requirements, checks.areaMatch,
                       checks.isAvailable, checks.hasFacilities),
     alternative |-> IsAlternative(checks.areaMatch, checks.isAvailable,
                                   checks.hasFacilities)]

\* the body of this.venues.forEach in findBestVenues: the venue's checks
\* and its VenueMatch
MatchVenue(venue, requirements, e) ==
    LET checks == Checks(venue, requirements, e)
    IN  [checks |-> checks,
         match |-> VenueMatch(venue, requirements, checks)]

\* MatchVenue over the model's inputs, computed once: entry
\* ((e - 1) * #requirements + (r - 1)) * #pool + i is that of Pool[i] for
\* RequirementsList[r] in EnvironmentsList[e].
MatchVenueMemo ==
    [k \in 1..(Len(EnvironmentsList) * Len(RequirementsList) * Len(Pool)) |->
        MatchVenue(Pool[((k - 1) % Len(Pool)) + 1],
                   RequirementsList[(((k - 1) \div Len(Pool))
                                        % Len(RequirementsList)) + 1],
                   EnvironmentsList[((k - 1) \div
                       (Len(Pool) * Len(RequirementsList))) + 1])]

PoolIndex(venue) == CHOOSE i \in 1..Len(Pool) : Pool[i] = venue

MatchVenueOf(venue, requirements, e) ==
    MatchVenueMemo[
        ((IndexIn(EnvironmentsList, e) - 1) * Len(RequirementsList)
            + (IndexIn(RequirementsList, requirements) - 1)) * Len(Pool)
        + PoolIndex(venue)]

\* the checks of a venue, as findBestVenues computes them
ChecksOf(venue, requirements, e) ==
    MatchVenueOf(venue, requirements, e).checks

\* the VenueMatch of every venue of the catalog, in catalog order
AllMatches(catalog, requirements, e) ==
    [i \in 1..Len(catalog) |->
        MatchVenueOf(catalog[i], requirements, e).match]

\* the two arrays findBestVenues pushes to, before sorting
PushedMatches(catalog, requirements, e) ==
    LET IsExact(m) == ~ m.alternative
    IN  SelectSeq(AllMatches(catalog, requirements, e), IsExact)

\* a forEach body that pushes every venue to alternatives
PushedAlternativesAlways(catalog, requirements, e) ==
    AllMatches(catalog, requirements, e)

PushedAlternatives(catalog, requirements, e) ==
    LET IsAlt(m) == m.alternative
    IN  SelectSeq(AllMatches(catalog, requirements, e), IsAlt)

----------------------------------------------------------------------------
(* Array.prototype.sort(compare).  The sort is stable (ECMAScript 2019); for *)
(* a comparator that is a consistent ordering every stable sort returns the *)
(* same array, and the model computes it by insertion from the right.       *)
(* unit is the number of scaled points in one point of score.               *)

\* (a, b) => b.score - a.score
CompareScore(a, b) == b.score - a.score

\* a comparator that puts the lower of two distant scores first
CompareTightFitAscending(a, b, unit) ==
    IF Abs(a.score - b.score) < 10 * unit
    THEN a.venue.area_sqft - b.venue.area_sqft
    ELSE a.score - b.score

\* the comparator of the high-priority sort
CompareTightFit(a, b, unit) ==
    IF Abs(a.score - b.score) < 10 * unit
    THEN a.venue.area_sqft - b.venue.area_sqft
    ELSE b.score - a.score

Compare(by, a, b, unit) ==
    IF by = "tightFit" THEN CompareTightFit(a, b, unit)
    ELSE CompareScore(a, b)

\* sorted with x inserted before the elements it ties with
InsertBeforeTies(sorted, x, by, unit) ==
    LET before == {j \in 1..Len(sorted) : Compare(by, sorted[j], x, unit) < 0}
        p == IF before = {} THEN 0
             ELSE CHOOSE j \in before : \A k \in before : k <= j
    IN  SubSeq(sorted, 1, p) \o <<x>> \o SubSeq(sorted, p + 1, Len(sorted))

\* sorted with x inserted after the last element that does not sort after x
Insert(sorted, x, by, unit) ==
    LET after == {j \in 1..Len(sorted) : Compare(by, sorted[j], x, unit) <= 0}
        p == IF after = {} THEN 0
             ELSE CHOOSE j \in after : \A k \in after : k <= j
    IN  SubSeq(sorted, 1, p) \o <<x>> \o SubSeq(sorted, p + 1, Len(sorted))

Sort(items, by, unit) ==
    LET sorted[k \in 0..Len(items)] ==
            IF k = 0 THEN <<>> ELSE Insert(sorted[k - 1], items[k], by, unit)
    IN  sorted[Len(items)]

\* a slice that keeps one entry too many
SliceOneMore(items, n) ==
    SubSeq(items, 1, IF Len(items) < n + 1 THEN Len(items) ELSE n + 1)

\* alternatives.slice(0, n)
Slice(items, n) == SubSeq(items, 1, IF Len(items) < n THEN Len(items) ELSE n)

\* matches sorted by score only, whatever the priority
SortedMatchesByScore(catalog, requirements, e) ==
    Sort(PushedMatches(catalog, requirements, e), "score",
         CalculateRequiredArea(requirements.participants))

\* the matches array of findBestVenues after its sorts
SortedMatches(catalog, requirements, e) ==
    LET unit == CalculateRequiredArea(requirements.participants)
        byScore ==
            Sort(PushedMatches(catalog, requirements, e), "score", unit)
    IN  IF requirements.priority = "high" /\ Len(byScore) > 0
        THEN Sort(byScore, "tightFit", unit)
        ELSE byScore

\* alternatives left in catalog order
UnsortedAlternatives(catalog, requirements, e) ==
    PushedAlternatives(catalog, requirements, e)

\* the alternatives array of findBestVenues after its sort
SortedAlternatives(catalog, requirements, e) ==
    Sort(PushedAlternatives(catalog, requirements, e), "score",
         CalculateRequiredArea(requirements.participants))

TopAlternatives == 3

\* a result whose noMatch looks at the exact matches only
FindBestVenuesResultNoExact(catalog, requirements, e) ==
    LET matches == SortedMatches(catalog, requirements, e)
        alternatives == SortedAlternatives(catalog, requirements, e)
    IN  [exactMatches |-> matches,
         alternatives |-> Slice(alternatives, TopAlternatives),
         noMatch |-> Len(matches) = 0]

\* findBestVenues
FindBestVenuesResult(catalog, requirements, e) ==
    LET matches == SortedMatches(catalog, requirements, e)
        alternatives == SortedAlternatives(catalog, requirements, e)
    IN  [exactMatches |-> matches,
         alternatives |-> Slice(alternatives, TopAlternatives),
         noMatch |-> Len(matches) = 0 /\ Len(alternatives) = 0]

Suggestions == <<"09:00", "10:00", "11:00", "14:00", "15:00", "16:00">>

\* booked times that keep the start of each booking only
BookedStartTimes(venue, requestedDate) ==
    LET OnDate(slot) == Includes(slot, requestedDate)
        onDate == SelectSeq(venue.booked_slots, OnDate)
    IN  [i \in 1..Len(onDate) |-> SubSeq(onDate[i], 12, 16)]

\* the bookedTimes array of getSuggestedTimeSlots
BookedTimes(venue, requestedDate) ==
    LET OnDate(slot) == Includes(slot, requestedDate)
        onDate == SelectSeq(venue.booked_slots, OnDate)
    IN  Flat([i \in 1..Len(onDate) |->
                LET parts == Split(onDate[i], " ")
                IN  IF Len(parts) >= 2 /\ parts[2] # ""
                    THEN Split(parts[2], "-") ELSE <<>>])

BufferMs == 2 * 60 * 60 * 1000

\* a test that also rejects a time exactly the buffer away
OutsideBufferInclusive(time, bookedTimes) ==
    ~ \E i \in 1..Len(bookedTimes) :
          /\ IsClockTime(bookedTimes[i])
          /\ Abs(GetTime(time) - GetTime(bookedTimes[i])) <= BufferMs

\* the test of suggestions.filter(...): no booked time within the buffer
\* (a time the runtime cannot read is NaN, and NaN < buffer is false)
OutsideBuffer(time, bookedTimes) ==
    ~ \E i \in 1..Len(bookedTimes) :
          /\ IsClockTime(bookedTimes[i])
          /\ Abs(GetTime(time) - GetTime(bookedTimes[i])) < BufferMs

\* getSuggestedTimeSlots
SuggestedTimeSlots(venue, requestedDate) ==
    IF IsNull(venue, "booked_slots") \/ Len(venue.booked_slots) = 0
    THEN Suggestions
    ELSE LET bookedTimes == BookedTimes(venue, requestedDate)
             Free(time) == OutsideBuffer(time, bookedTimes)
         IN  SelectSeq(Suggestions, Free)

\* SuggestedTimeSlots over the model's inputs, computed once
SuggestedTimeSlotsMemo ==
    [k \in 1..(Len(Pool) * Len(RequestedDatesList)) |->
        SuggestedTimeSlots(Pool[((k - 1) % Len(Pool)) + 1],
                           RequestedDatesList[((k - 1) \div Len(Pool)) + 1])]

GetSuggestedTimeSlotsResult(venue, requestedDate) ==
    SuggestedTimeSlotsMemo[
        (IndexIn(RequestedDatesList, requestedDate) - 1) * Len(Pool)
        + PoolIndex(venue)]

----------------------------------------------------------------------------
(* The state machine: an algorithm object built over a catalog, and the     *)
(* calls of its two public methods.                                         *)

\* new VenueSelectionAlgorithm(venues), in some runtime environment
\* neither page is mounted
NoWizard ==
    /\ step = 0
    /\ formData = <<>>
    /\ venueMatches = <<>>
    /\ shownAlternatives = <<>>
    /\ loading = FALSE
    /\ venuesRequest = "none"
    /\ eventInsert = [status |-> "none", row |-> <<>>]

NoAdmin ==
    /\ events = <<>>
    /\ eventsTable = <<>>
    /\ updatingEventId = "null"
    /\ updates = <<>>

Init ==
    /\ venues \in Catalogs
    /\ env \in Environments
    /\ op = "idle"
    /\ args = <<>>
    /\ ret = <<>>
    /\ held = <<>>
    /\ NoWizard
    /\ NoAdmin

\* algorithm.findBestVenues(requirements)
FindBestVenues(requirements) ==
    /\ op = "idle"
    /\ op' = "findBestVenues"
    /\ args' = requirements
    /\ ret' = FindBestVenuesResult(venues, requirements, env)
    /\ UNCHANGED <<venues, env, held, wizardVars, adminVars>>

\* a getSuggestedTimeSlots that hands out the array the caller already holds
GetSuggestedTimeSlotsShared(venue, requestedDate) ==
    /\ op = "idle"
    /\ op' = "getSuggestedTimeSlots"
    /\ args' = [venue |-> venue, requestedDate |-> requestedDate]
    /\ ret' = IF held # <<>> THEN held[1]
              ELSE GetSuggestedTimeSlotsResult(venue, requestedDate)
    /\ UNCHANGED <<venues, env, held, wizardVars, adminVars>>

\* algorithm.getSuggestedTimeSlots(venue, requestedDate)
GetSuggestedTimeSlots(venue, requestedDate) ==
    /\ op = "idle"
    /\ op' = "getSuggestedTimeSlots"
    /\ args' = [venue |-> venue, requestedDate |-> requestedDate]
    /\ ret' = GetSuggestedTimeSlotsResult(venue, requestedDate)
    /\ UNCHANGED <<venues, env, held, wizardVars, adminVars>>

\* the caller has taken the returned value
Return ==
    /\ op # "idle"
    /\ op' = "idle"
    /\ args' = <<>>
    /\ ret' = <<>>
    /\ UNCHANGED <<venues, env, held, wizardVars, adminVars>>

Next ==
    \/ \E requirements \in Requirements : FindBestVenues(requirements)
    \/ \E i \in 1..Len(Pool), requestedDate \in RequestedDates :
           GetSuggestedTimeSlots(Pool[i], requestedDate)
    \/ Return

Spec == Init /\ [][Next]_vars

(* The caller of the engine.  It may keep the array a getSuggestedTimeSlots  *)
(* call returned and, once the call is over, empty it (array.length = 0).    *)

\* the most venues of a catalog when the caller's arrays are followed
MaxFrameVenues == 2

InitFrame ==
    /\ Init
    /\ Len(venues) <= MaxFrameVenues

\* the caller keeps the array the call returned
KeepResult ==
    /\ op = "getSuggestedTimeSlots"
    /\ held # <<ret>>
    /\ held' = <<ret>>
    /\ UNCHANGED <<venues, env, op, args, ret, wizardVars, adminVars>>

\* the caller empties the array it kept
ClearKept ==
    /\ op = "idle"
    /\ held # <<>>
    /\ held[1] # <<>>
    /\ held' = << <<>> >>
    /\ UNCHANGED <<venues, env, op, args, ret, wizardVars, adminVars>>

NextFrame ==
    \/ Next
    \/ KeepResult
    \/ ClearKept

SpecFrame == InitFrame /\ [][NextFrame]_vars

----------------------------------------------------------------------------
(* Properties of findBestVenues.  They are stated of the state after a call: *)
(* venues is the catalog, args the requirements, ret the returned value.     *)

\* the number of entries of a returned list that are the venue
Occurs(list, venue) ==
    Cardinality({j \in 1..Len(list) : list[j].venue = venue})

\* the venue was classified alternative in the current call
ClassifiedAlternative(venue) == MatchVenueOf(venue, args, env).match.alternative

\* the number of catalog venues classified alternative in the current call
AlternativesInCatalog ==
    Cardinality({i \in 1..Len(venues) : ClassifiedAlternative(venues[i])})

\* the venue is an alternative that alternatives.slice(0, 3) cut off
DroppedByCap(venue) ==
    LET bucket == SortedAlternatives(venues, args, env)
    IN  \E j \in (TopAlternatives + 1)..Len(bucket) : bucket[j].venue = venue

\* C1: findBestVenues accounts for each catalog venue exactly once, as an
\* exact match, as a returned alternative or as an alternative dropped by
\* the cap, and it returns at most 3 alternatives.
C1_EachVenueAccountedOnce ==
    op = "findBestVenues" =>
        LET bucket == SortedAlternatives(venues, args, env)
            dropped == {bucket[j].venue :
                            j \in (TopAlternatives + 1)..Len(bucket)}
        IN  /\ Len(ret.alternatives) <= 3
            /\ \A i \in 1..Len(venues) :
                   Occurs(ret.exactMatches, venues[i])
                       + Occurs(ret.alternatives, venues[i])
                       + (IF venues[i] \in dropped THEN 1 ELSE 0) = 1

\* a call that returned exact matches and 3 alternatives and dropped one
C1_Witness ==
    /\ op = "findBestVenues"
    /\ Len(ret.exactMatches) >= 1
    /\ Len(ret.alternatives) = 3
    /\ \E i \in 1..Len(venues) : DroppedByCap(venues[i])

\* C2 as stated: every catalog venue is in exactly one of the two returned
\* lists, never in both and never omitted.
C2_InExactlyOneReturnedList ==
    op = "findBestVenues" =>
        \A i \in 1..Len(venues) :
            Occurs(ret.exactMatches, venues[i])
                + Occurs(ret.alternatives, venues[i]) = 1

\* C2, amended: every catalog venue is in at most one of the two returned
\* lists; it is omitted only if it is an alternative and the catalog has
\* more than 3 alternatives, and with at most 3 alternatives none is omitted.
C2_InOneListUnlessCapped ==
    op = "findBestVenues" =>
        LET alternatives == AlternativesInCatalog
        IN  \A i \in 1..Len(venues) :
                LET n == Occurs(ret.exactMatches, venues[i])
                             + Occurs(ret.alternatives, venues[i])
                IN  /\ n <= 1
                    /\ n = 0 => /\ ClassifiedAlternative(venues[i])
                                /\ alternatives > TopAlternatives
                    /\ alternatives <= TopAlternatives => n = 1

\* a call that omitted a venue although it returned an exact match
C2_Witness ==
    /\ op = "findBestVenues"
    /\ Len(ret.exactMatches) >= 1
    /\ \E i \in 1..Len(venues) :
           /\ Occurs(ret.exactMatches, venues[i]) = 0
           /\ Occurs(ret.alternatives, venues[i]) = 0

\* the venue passed the three checks of the current call
PassesAllChecks(venue) ==
    LET checks == ChecksOf(venue, args, env)
    IN  checks.areaMatch /\ checks.isAvailable /\ checks.hasFacilities

\* C3: a venue is put in the alternatives bucket, flagged alternative, iff
\* it fails at least one of areaMatch, isAvailable, hasFacilities; otherwise
\* it is put in exactMatches, not flagged.
C3_AlternativeIffSomeCheckFails ==
    op = "findBestVenues" =>
        /\ \A j \in 1..Len(ret.exactMatches) :
               /\ ~ ret.exactMatches[j].alternative
               /\ PassesAllChecks(ret.exactMatches[j].venue)
        /\ \A j \in 1..Len(ret.alternatives) :
               /\ ret.alternatives[j].alternative
               /\ ~ PassesAllChecks(ret.alternatives[j].venue)
        /\ LET bucket == SortedAlternatives(venues, args, env)
           IN  \A i \in 1..Len(venues) :
                   LET passes == PassesAllChecks(venues[i])
                   IN  /\ passes <=> Occurs(ret.exactMatches, venues[i]) = 1
                       /\ ~ passes <=> Occurs(bucket, venues[i]) = 1

\* a call that returned an exact match and an alternative that fails only
\* the facilities check
C3_Witness ==
    /\ op = "findBestVenues"
    /\ Len(ret.exactMatches) >= 1
    /\ \E j \in 1..Len(ret.alternatives) :
           LET checks == ChecksOf(ret.alternatives[j].venue, args, env)
           IN  checks.areaMatch /\ checks.isAvailable
                   /\ ~ checks.hasFacilities

\* the claim's account of a booked venue: a slot that contains the local
\* calendar date of the request and whose range holds its local time
BookedAtLocalTime(venue, requestedDateTime) ==
    \E i \in 1..Len(venue.booked_slots) :
        SlotCovers(venue.booked_slots[i], SubSeq(requestedDateTime, 1, 10),
                   SubSeq(requestedDateTime, 12, 16))

\* C4 as stated: isVenueAvailable returns false iff a booked slot contains
\* the requested local calendar date and its range holds the requested local
\* time, both end points included.
C4_UnavailableIffBookedAtLocalTime ==
    op = "findBestVenues" =>
        \A i \in 1..Len(venues) :
            ChecksOf(venues[i], args, env).isAvailable
                <=> ~ BookedAtLocalTime(venues[i], args.preferredDateTime)

\* the claim's account of two labels matching
LabelsMatch(a, b) ==
    LET la == ToLowerCase(a)
        lb == ToLowerCase(b)
    IN  Includes(la, lb) \/ Includes(lb, la)

\* the claim's account of hasFacilities
SatisfiesFacilities(venue, required) ==
    \/ required = <<>>
    \/ /\ venue.facilities # <<>>
       /\ \A r \in 1..Len(required) :
              \E f \in 1..Len(venue.facilities) :
                  LabelsMatch(required[r], venue.facilities[f])

\* SatisfiesFacilities over the model's inputs, computed once
SatisfiesFacilitiesMemo ==
    [k \in 1..(Len(RequirementsList) * Len(Pool)) |->
        SatisfiesFacilities(
            Pool[((k - 1) % Len(Pool)) + 1],
            RequirementsList[((k - 1) \div Len(Pool)) + 1].facilitiesRequired)]

SatisfiesFacilitiesOf(venue, requirements) ==
    SatisfiesFacilitiesMemo[
        (IndexIn(RequirementsList, requirements) - 1) * Len(Pool)
        + PoolIndex(venue)]

\* C5: hasFacilities is true iff the required list is empty, or the venue
\* has a facility and every required label matches one of its labels, two
\* labels matching when one contains the other after lowercasing.
C5_HasFacilitiesIffEveryLabelMatches ==
    op = "findBestVenues" =>
        \A i \in 1..Len(venues) :
            LET has == ChecksOf(venues[i], args, env).hasFacilities
            IN  /\ has <=> SatisfiesFacilitiesOf(venues[i], args)
                /\ args.facilitiesRequired = <<>> => has
                /\ (venues[i].facilities = <<>>
                        /\ args.facilitiesRequired # <<>>) => ~ has

\* a call in which a venue satisfies a required label only because the
\* required label contains the venue's label, and another venue fails
C5_Witness ==
    /\ op = "findBestVenues"
    /\ \E i, j \in 1..Len(venues) :
           /\ ChecksOf(venues[i], args, env).hasFacilities
           /\ \E r \in 1..Len(args.facilitiesRequired) :
                  \A f \in 1..Len(venues[i].facilities) :
                      ~ Includes(ToLowerCase(venues[i].facilities[f]),
                                 ToLowerCase(args.facilitiesRequired[r]))
           /\ venues[j].facilities # <<>>
           /\ ~ ChecksOf(venues[j], args, env).hasFacilities

\* the entries findBestVenues returned, of both lists
Returned == ret.exactMatches \o ret.alternatives

\* the claim's score of a venue, in scaled points
SumOfFiveTerms(venue, checks) ==
    LET requiredArea == args.participants * 6
    IN  (IF venue.area_sqft >= requiredArea
         THEN Max(0, 100 * requiredArea
                         - (venue.area_sqft - requiredArea) * 20)
         ELSE 0)
        + (IF checks.isAvailable THEN 50 * requiredArea ELSE 0)
        + (IF checks.hasFacilities THEN 30 * requiredArea ELSE 0)
        + (IF venue.capacity >= args.participants
           THEN 20 * requiredArea ELSE 0)
        + (IF args.priority = "high" THEN 10 * requiredArea ELSE 0)

\* C6: the score is the sum of five independent terms: the area term
\* max(0, 100 - (area/requiredArea - 1) * 20) if area >= requiredArea, 50 if
\* available, 30 if the facilities are satisfied, 20 if capacity >=
\* participants, 10 if the priority is high.
C6_ScoreIsSumOfFiveTerms ==
    op = "findBestVenues" =>
        /\ \A j \in 1..Len(Returned) :
               Returned[j].score
                   = SumOfFiveTerms(Returned[j].venue,
                                    ChecksOf(Returned[j].venue, args, env))
        /\ \A i \in 1..Len(venues) :
               MatchVenueOf(venues[i], args, env).match.score
                   = SumOfFiveTerms(venues[i],
                                    ChecksOf(venues[i], args, env))

\* a call that returned a venue that is too small and still scored 50 + 30
\* + 20 + 10, and a venue whose area term is cut to 0
C6_Witness ==
    /\ op = "findBestVenues"
    /\ \E j, k \in 1..Len(Returned) :
           /\ Returned[j].venue.area_sqft < args.participants * 6
           /\ Returned[j].score = 110 * args.participants * 6
           /\ Returned[k].venue.area_sqft >= 6 * args.participants * 6
           /\ Returned[k].score > 0

\* the claim's reason of a venue whose checks are not all true, up to the
\* list of missing labels
FailureReason(venue, checks) ==
    IF ~ checks.areaMatch
    THEN "Too small: Needs " \o ToString(args.participants * 6)
             \o " sq ft, has " \o ToString(venue.area_sqft) \o " sq ft"
    ELSE IF ~ checks.isAvailable THEN "Venue is booked at requested time"
    ELSE "Missing facilities: "

\* C7: the reason is chosen by fixed precedence: all three checks hold ->
\* 'Perfect match'; else too small; else booked; else missing facilities.
C7_ReasonByPrecedence ==
    op = "findBestVenues" =>
        \A j \in 1..Len(Returned) :
            LET checks == ChecksOf(Returned[j].venue, args, env)
                reason == Returned[j].reason
                failure == FailureReason(Returned[j].venue, checks)
            IN  IF checks.areaMatch /\ checks.isAvailable
                       /\ checks.hasFacilities
                THEN reason = "Perfect match: Adequate space, available, and has required facilities"
                ELSE IF checks.areaMatch /\ checks.isAvailable
                THEN SubSeq(reason, 1, Len(failure)) = failure
                ELSE reason = failure

\* a call that returned a venue too small and booked, reported too small,
\* and a venue booked and lacking facilities, reported booked
C7_Witness ==
    /\ op = "findBestVenues"
    /\ \E j, k \in 1..Len(Returned) :
           LET cj == ChecksOf(Returned[j].venue, args, env)
               ck == ChecksOf(Returned[k].venue, args, env)
           IN  /\ ~ cj.areaMatch /\ ~ cj.isAvailable
               /\ SubSeq(Returned[j].reason, 1, 9) = "Too small"
               /\ ck.areaMatch /\ ~ ck.isAvailable /\ ~ ck.hasFacilities
               /\ Returned[k].reason = "Venue is booked at requested time"

\* C8: when priority is high, of two exact matches whose scores differ by
\* less than 10 the one with the smaller floor area comes first.
C8_TightFitFirstAmongNearTies ==
    (op = "findBestVenues" /\ args.priority = "high") =>
        \A i, j \in 1..Len(ret.exactMatches) :
            LET a == ret.exactMatches[i]
                b == ret.exactMatches[j]
            IN  (/\ Abs(a.score - b.score) < 10 * args.participants * 6
                 /\ a.venue.area_sqft < b.venue.area_sqft) => i < j

\* a high-priority call that returned a smaller venue before a larger one
\* that outscores it by less than 10
C8_Witness ==
    /\ op = "findBestVenues"
    /\ args.priority = "high"
    /\ \E i, j \in 1..Len(ret.exactMatches) :
           LET a == ret.exactMatches[i]
               b == ret.exactMatches[j]
           IN  /\ i < j
               /\ a.venue.area_sqft < b.venue.area_sqft
               /\ a.score < b.score
               /\ b.score - a.score < 10 * args.participants * 6

\* the position of a venue in the catalog
CatalogIndex(venue) == CHOOSE i \in 1..Len(venues) : venues[i] = venue

\* C9: the returned alternatives are the top 3 alternatives by score: the
\* first 3 entries of the alternatives sorted by descending score, so every
\* dropped alternative scores at most what every returned one scores.
C9_TopThreeAlternativesByScore ==
    op = "findBestVenues" =>
        LET alternatives == AlternativesInCatalog
        IN  /\ Len(ret.alternatives)
                   = (IF alternatives < 3 THEN alternatives ELSE 3)
            /\ \A j \in 1..Len(ret.alternatives) :
                   LET kept == ret.alternatives[j]
                   IN  /\ \E i \in 1..Len(venues) : venues[i] = kept.venue
                       /\ kept.alternative
                       /\ kept = MatchVenueOf(kept.venue, args, env).match
                       /\ j > 1 => ret.alternatives[j - 1].score >= kept.score
            /\ \A i \in 1..Len(venues) :
                   LET dropped == MatchVenueOf(venues[i], args, env).match
                   IN  (/\ dropped.alternative
                        /\ Occurs(ret.alternatives, venues[i]) = 0) =>
                           \A j \in 1..Len(ret.alternatives) :
                               LET kept == ret.alternatives[j]
                               IN  /\ dropped.score <= kept.score
                                   /\ dropped.score = kept.score
                                          => CatalogIndex(kept.venue) < i

\* a call that dropped an alternative that comes first in the catalog and
\* scores less than a returned one
C9_Witness ==
    /\ op = "findBestVenues"
    /\ Len(venues) > 3
    /\ ClassifiedAlternative(venues[1])
    /\ Occurs(ret.alternatives, venues[1]) = 0
    /\ \A j \in 1..Len(ret.alternatives) :
           MatchVenueOf(venues[1], args, env).match.score
               < ret.alternatives[j].score

\* the candidates the claim lists
FixedCandidates == <<"09:00", "10:00", "11:00", "14:00", "15:00", "16:00">>

\* a booked slot of the form 'YYYY-MM-DD HH:MM-HH:MM'
WellFormedSlot(slot) ==
    /\ Len(slot) = 22
    /\ CharAt(slot, 11) = " "
    /\ CharAt(slot, 17) = "-"
    /\ IsClockTime(SubSeq(slot, 12, 16))
    /\ IsClockTime(SubSeq(slot, 18, 22))

\* minutes since midnight of an 'HH:MM' clock time
ClockMinutes(time) == Num2(SubSeq(time, 1, 2)) * 60 + Num2(SubSeq(time, 4, 5))

\* the claim's test of a candidate: at least 2 hours from the start and from
\* the end of every booking of the venue whose text contains the date
FarFromBookings(candidate, venue, requestedDate) ==
    \A i \in 1..Len(venue.booked_slots) :
        LET slot == venue.booked_slots[i]
        IN  Includes(slot, requestedDate) =>
                /\ Abs(ClockMinutes(candidate)
                           - ClockMinutes(SubSeq(slot, 12, 16))) >= 120
                /\ Abs(ClockMinutes(candidate)
                           - ClockMinutes(SubSeq(slot, 18, 22))) >= 120

\* C10: getSuggestedTimeSlots returns, of the fixed candidates 09:00, 10:00,
\* 11:00, 14:00, 15:00, 16:00 and in that order, those at least 2 hours from
\* the start and the end of every booking of the venue on the requested
\* date; all six when the venue has no bookings; a booking whose text does
\* not contain the date removes nothing.  Stated for bookings of the form
\* 'YYYY-MM-DD HH:MM-HH:MM'.
C10_SuggestionsKeepTwoHourBuffer ==
    (/\ op = "getSuggestedTimeSlots"
     /\ \A i \in 1..Len(args.venue.booked_slots) :
            WellFormedSlot(args.venue.booked_slots[i])) =>
        LET Far(candidate) ==
                FarFromBookings(candidate, args.venue, args.requestedDate)
        IN  /\ ret = SelectSeq(FixedCandidates, Far)
            /\ args.venue.booked_slots = <<>> => ret = FixedCandidates
            /\ (\A i \in 1..Len(args.venue.booked_slots) :
                    ~ Includes(args.venue.booked_slots[i],
                               args.requestedDate))
                   => ret = FixedCandidates

\* a call for a venue booked 10:00-12:00 on the date that kept 14:00, two
\* hours after the end of the booking, and dropped the candidates before it
C10_Witness ==
    /\ op = "getSuggestedTimeSlots"
    /\ args.venue.booked_slots = <<"2025-09-26 10:00-12:00">>
    /\ args.requestedDate = "2025-09-26"
    /\ ret = <<"14:00", "15:00", "16:00">>

\* the bookings of the venue of the call whose text contains the date
BookingsOnDate ==
    LET OnDate(slot) == Includes(slot, args.requestedDate)
    IN  SelectSeq(args.venue.booked_slots, OnDate)

\* the call is for a venue whose only booking on the date is 09:00-10:00
OnlyBookedNineToTen ==
    /\ op = "getSuggestedTimeSlots"
    /\ ~ IsNull(args.venue, "booked_slots")
    /\ BookingsOnDate = << args.requestedDate \o " 09:00-10:00" >>

\* C11 as stated: for a venue whose only booking on the requested date is
\* 09:00-10:00, getSuggestedTimeSlots returns [11:00, 14:00, 15:00, 16:00].
C11_NineToTenKeepsEleven ==
    OnlyBookedNineToTen => ret = <<"11:00", "14:00", "15:00", "16:00">>

\* C11 amended: for a venue whose only booking on the requested date is
\* 09:00-10:00, getSuggestedTimeSlots returns [14:00, 15:00, 16:00]: 11:00
\* is one hour after the end of the booking and is excluded with 09:00 and
\* 10:00.
C11_NineToTenDropsEleven ==
    OnlyBookedNineToTen => ret = <<"14:00", "15:00", "16:00">>

\* a call for a venue booked 09:00-10:00 on the date, and on another date,
\* that returned a list without 11:00
C11_Witness ==
    /\ OnlyBookedNineToTen
    /\ Len(args.venue.booked_slots) > 1
    /\ \A k \in 1..Len(ret) : ret[k] # "11:00"

\* C12 as stated: every time slot proposed by getSuggestedTimeSlots is
\* non-conflicting: isVenueAvailable reports the venue available at the date
\* and each returned time, so no proposed slot lies inside a booking
\* interval of that date.  Stated for a runtime in UTC, where the date and
\* the time isVenueAvailable compares are those of the request.
C12_SuggestedSlotsAreAvailable ==
    (op = "getSuggestedTimeSlots" /\ env.tzOffset = 0) =>
        \A k \in 1..Len(ret) :
            LET requestedDateTime == args.requestedDate \o " " \o ret[k]
            IN  /\ IsVenueAvailable(args.venue, requestedDateTime, env)
                /\ ~ BookedAtLocalTime(args.venue, requestedDateTime)

\* C13: noMatch is true iff both returned lists are empty; an empty catalog
\* yields both lists empty and noMatch true; a non-empty catalog never
\* yields noMatch true.
C13_NoMatchIffBothListsEmpty ==
    op = "findBestVenues" =>
        /\ ret.noMatch <=> (ret.exactMatches = <<>> /\ ret.alternatives = <<>>)
        /\ venues = <<>> =>
               (ret.exactMatches = <<>> /\ ret.alternatives = <<>>
                    /\ ret.noMatch)
        /\ venues # <<>> => ~ ret.noMatch

\* a call on the empty catalog that returned noMatch, no venue in either list
C13_Witness ==
    /\ op = "findBestVenues"
    /\ venues = <<>>
    /\ ret = [exactMatches |-> <<>>, alternatives |-> <<>>, noMatch |-> TRUE]

\* C14: the score is at least 0 and at most 210, and 210 is attained only
\* when the venue's area equals the required area, it is available, has the
\* facilities, has capacity >= participants and the priority is high.
\* (Scores are in scaled points: 210 is 210 * requiredArea.)
C14_ScoreBetweenZeroAndTwoTen ==
    op = "findBestVenues" =>
        \A i \in 1..Len(venues) :
            LET score == MatchVenueOf(venues[i], args, env).match.score
                checks == ChecksOf(venues[i], args, env)
                requiredArea == args.participants * 6
            IN  /\ 0 <= score
                /\ score <= 210 * requiredArea
                /\ score = 210 * requiredArea =>
                       /\ venues[i].area_sqft = requiredArea
                       /\ checks.isAvailable
                       /\ checks.hasFacilities
                       /\ venues[i].capacity >= args.participants
                       /\ args.priority = "high"
                /\ \A j \in 1..Len(Returned) :
                       Returned[j].venue = venues[i]
                           => Returned[j].score = score

\* a call that returned a venue with the score 210 and another venue, larger
\* than required and passing every check, with less
C14_Witness ==
    /\ op = "findBestVenues"
    /\ \E j, k \in 1..Len(ret.exactMatches) :
           /\ ret.exactMatches[j].score = 210 * args.participants * 6
           /\ ret.exactMatches[k].venue.area_sqft > args.participants * 6
           /\ ret.exactMatches[k].venue.capacity >= args.participants
           /\ ret.exactMatches[k].score < 210 * args.participants * 6

\* the participant counts of the model's requirements
ParticipantsList == ListOf({r.participants : r \in Requirements})

\* the venue with a capacity that does, or does not, hold the participants
WithCapacity(venue, participants, enough) ==
    [venue EXCEPT !.capacity =
        IF enough THEN participants ELSE participants - 1]

\* calculateScore reads the participants and the priority of the requirements
ScoreOf(venue, participants, isAvailable, hasFacilities, areaMatch, enough, high) ==
    CalculateScore(WithCapacity(venue, participants, enough),
                   [participants |-> participants,
                    priority |-> IF high THEN "high" ELSE "medium"],
                   isAvailable, hasFacilities, areaMatch)

\* satisfying one more condition never lowers the score of the venue
ScoreMonotone(venue, participants) ==
    \A a, f, m, c, h \in BOOLEAN :
        LET base == ScoreOf(venue, participants, a, f, m, c, h)
        IN  /\ ~ a => ScoreOf(venue, participants, TRUE, f, m, c, h) >= base
            /\ ~ f => ScoreOf(venue, participants, a, TRUE, m, c, h) >= base
            /\ ~ m => ScoreOf(venue, participants, a, f, TRUE, c, h) >= base
            /\ ~ c => ScoreOf(venue, participants, a, f, m, TRUE, h) >= base
            /\ ~ h => ScoreOf(venue, participants, a, f, m, c, TRUE) >= base

\* ScoreMonotone over the model's inputs, computed once
ScoreMonotoneMemo ==
    [k \in 1..(Len(ParticipantsList) * Len(Pool)) |->
        ScoreMonotone(Pool[((k - 1) % Len(Pool)) + 1],
                      ParticipantsList[((k - 1) \div Len(Pool)) + 1])]

\* C15: the score is monotonically non-decreasing in each condition: for a
\* fixed venue and participants, changing any one of areaMatch, isAvailable,
\* hasFacilities, capacity >= participants, priority = high from not
\* satisfied to satisfied, the others unchanged, never lowers the score.
C15_ScoreMonotoneInEachCondition ==
    op = "findBestVenues" =>
        \A i \in 1..Len(venues) :
            ScoreMonotoneMemo[
                (IndexIn(ParticipantsList, args.participants) - 1) * Len(Pool)
                + PoolIndex(venues[i])]

\* a call that returned a venue so large that its area term is 0, whose
\* score is the one it would have with areaMatch false, and is higher than
\* the one it would have if it were booked
C15_Witness ==
    /\ op = "findBestVenues"
    /\ \E j \in 1..Len(ret.exactMatches) :
           LET venue == ret.exactMatches[j].venue
           IN  /\ venue.area_sqft > 6 * args.participants * 6
               /\ ret.exactMatches[j].score
                      = CalculateScore(venue, args, TRUE, TRUE, TRUE)
               /\ ret.exactMatches[j].score
                      = CalculateScore(venue, args, TRUE, TRUE, FALSE)
               /\ ret.exactMatches[j].score
                      > CalculateScore(venue, args, FALSE, TRUE, TRUE)

\* the claim's terms of the score other than the area term, in scaled points
TermsOtherThanArea(venue, checks) ==
    LET requiredArea == args.participants * 6
    IN  (IF checks.isAvailable THEN 50 * requiredArea ELSE 0)
        + (IF checks.hasFacilities THEN 30 * requiredArea ELSE 0)
        + (IF venue.capacity >= args.participants
           THEN 20 * requiredArea ELSE 0)
        + (IF args.priority = "high" THEN 10 * requiredArea ELSE 0)

\* C16: requiredArea is participants * 6, and a venue whose area equals
\* requiredArea has areaMatch true: it is never given the 'Too small'
\* reason and its area term is the full 100 points.
C16_ExactAreaMatchesInFull ==
    op = "findBestVenues" =>
        /\ CalculateRequiredArea(args.participants) = args.participants * 6
        /\ \A i \in 1..Len(venues) :
               venues[i].area_sqft = args.participants * 6 =>
                   LET checks == ChecksOf(venues[i], args, env)
                       match == MatchVenueOf(venues[i], args, env).match
                   IN  /\ checks.areaMatch
                       /\ SubSeq(match.reason, 1, 9) # "Too small"
                       /\ match.score - TermsOtherThanArea(venues[i], checks)
                              = 100 * args.participants * 6
        /\ \A j \in 1..Len(Returned) :
               Returned[j].venue.area_sqft = args.participants * 6 =>
                   /\ SubSeq(Returned[j].reason, 1, 9) # "Too small"
                   /\ Returned[j].score
                          - TermsOtherThanArea(Returned[j].venue,
                                ChecksOf(Returned[j].venue, args, env))
                          = 100 * args.participants * 6

\* a call that returned as exact match a venue of exactly the required
\* area, and as too small a venue of less
C16_Witness ==
    /\ op = "findBestVenues"
    /\ \E j \in 1..Len(ret.exactMatches) :
           ret.exactMatches[j].venue.area_sqft = args.participants * 6
    /\ \E k \in 1..Len(ret.alternatives) :
           /\ ret.alternatives[k].venue.area_sqft < args.participants * 6
           /\ SubSeq(ret.alternatives[k].reason, 1, 9) = "Too small"

\* the venue has no facility: the column is null or the list is empty
NoFacilities(venue) == IsNull(venue, "facilities") \/ venue.facilities = <<>>

SortedByScoreStable(list) ==
    \A j, k \in 1..Len(list) :
        j < k =>
            /\ list[j].score >= list[k].score
            /\ list[j].score = list[k].score
                   => CatalogIndex(list[j].venue) < CatalogIndex(list[k].venue)

\* C18: the alternatives list is always in non-increasing score order, and
\* when priority is not high so is the exactMatches list; in both, venues
\* with equal scores keep their relative order from the input catalog.
C18_ListsSortedByScoreStable ==
    op = "findBestVenues" =>
        /\ SortedByScoreStable(ret.alternatives)
        /\ args.priority # "high" => SortedByScoreStable(ret.exactMatches)

\* a call of priority not high that returned two exact matches of equal
\* score and two alternatives of equal score
C18_Witness ==
    /\ op = "findBestVenues"
    /\ args.priority # "high"
    /\ \E j, k \in 1..Len(ret.exactMatches) :
           j < k /\ ret.exactMatches[j].score = ret.exactMatches[k].score
    /\ \E j, k \in 1..Len(ret.alternatives) :
           j < k /\ ret.alternatives[j].score = ret.alternatives[k].score

\* C19: findBestVenues and getSuggestedTimeSlots never mutate their inputs:
\* every step leaves the catalog as it was, a call leaves its arguments such
\* that the result is the one the catalog and the arguments give after the
\* call, and the array getSuggestedTimeSlots returns is not one the caller
\* holds from an earlier call: the call leaves the held array as it is and
\* returns the list its arguments give, whatever the caller did to the
\* array it holds.
C19_CallsLeaveInputsUnchanged ==
    [][/\ venues' = venues
       /\ op' = "findBestVenues" =>
              /\ args' \in Requirements
              /\ ret' = FindBestVenuesResult(venues', args', env)
              /\ held' = held
       /\ (op = "idle" /\ op' = "getSuggestedTimeSlots") =>
              /\ \E i \in 1..Len(Pool) : args'.venue = Pool[i]
              /\ args'.requestedDate \in RequestedDates
              /\ ret' = GetSuggestedTimeSlotsResult(args'.venue,
                                                    args'.requestedDate)
              /\ held' = held
       /\ op' = "idle" => (op # "idle" => held' = held)]_vars

\* a call of getSuggestedTimeSlots that returned all six candidates after
\* the caller emptied the array an earlier call had returned
C19_Witness ==
    /\ op = "getSuggestedTimeSlots"
    /\ held = << <<>> >>
    /\ ret = <<"09:00", "10:00", "11:00", "14:00", "15:00", "16:00">>

\* C20 as stated: the engine holds no state across calls and reads no
\* ambient state: two calls of findBestVenues with equal catalog and equal
\* arguments return equal results.  The call of the state is compared with
\* the call of the same catalog and arguments in each runtime.
C20_EqualCallsReturnEqualResults ==
    op = "findBestVenues" =>
        \A e \in Environments :
            FindBestVenuesResult(venues, args, e) = ret

\* the claim's malformed booked slot, for a requested date: no date match,
\* no space-separated time token, or a time token without a '-' separator
MalformedSlot(slot, requestedDate) ==
    LET parts == Split(slot, " ")
    IN  \/ ~ Includes(slot, requestedDate)
        \/ Len(parts) < 2
        \/ ~ Includes(parts[2], "-")

\* C21 as stated: a venue with an absent or empty booking list is always
\* available, and a malformed booked slot (no date match, no space-separated
\* time token, or a time token without '-') is not a conflict for
\* isVenueAvailable and removes no candidate in getSuggestedTimeSlots.
C21_MalformedSlotsAreNoConflict ==
    /\ op = "findBestVenues" =>
           \A i \in 1..Len(venues) :
               (\/ IsNull(venues[i], "booked_slots")
                \/ venues[i].booked_slots = <<>>
                \/ \A k \in 1..Len(venues[i].booked_slots) :
                       MalformedSlot(venues[i].booked_slots[k],
                                     ToISODate(args.preferredDateTime, env)))
                   => ChecksOf(venues[i], args, env).isAvailable
    /\ (/\ op = "getSuggestedTimeSlots"
        /\ \/ IsNull(args.venue, "booked_slots")
           \/ \A k \in 1..Len(args.venue.booked_slots) :
                  MalformedSlot(args.venue.booked_slots[k],
                                args.requestedDate))
           => ret = <<"09:00", "10:00", "11:00", "14:00", "15:00", "16:00">>

\* the score of the entry is a whole number of points
IntegerScore(match) == match.score % (args.participants * 6) = 0

C23_DistantScoresDescending ==
    (op = "findBestVenues" /\ args.priority = "high") =>
        \A i, j \in 1..Len(ret.exactMatches) :
            ret.exactMatches[i].score - ret.exactMatches[j].score
                >= 10 * args.participants * 6
                    => i < j

\* a high-priority call that returned a venue ahead of a larger one that
\* outscores it by less than 10, and both ahead of a venue they outscore by
\* 10 or more
C23_Witness ==
    /\ op = "findBestVenues"
    /\ args.priority = "high"
    /\ \E i, j, k \in 1..Len(ret.exactMatches) :
           /\ i < j /\ j < k
           /\ ret.exactMatches[i].score < ret.exactMatches[j].score
           /\ ret.exactMatches[i].score - ret.exactMatches[k].score
                  >= 10 * args.participants * 6

\* the claim's account of the listed labels: the required labels that match
\* no facility of the venue under the two-way test
UnmatchedLabels(venue, required) ==
    LET MatchesNone(req) ==
            \A f \in 1..Len(venue.facilities) :
                ~ LabelsMatch(req, venue.facilities[f])
    IN  SelectSeq(required, MatchesNone)

\* C24: when the reason is 'Missing facilities: ...', the listed labels are
\* exactly the required labels that match no facility of the venue under
\* the two-way case-insensitive substring test of hasFacilities, and the
\* list is never empty.
C24_ListedLabelsAreTheUnmatched ==
    op = "findBestVenues" =>
        \A j \in 1..Len(Returned) :
            LET reason == Returned[j].reason
                unmatched == UnmatchedLabels(Returned[j].venue,
                                             args.facilitiesRequired)
            IN  SubSeq(reason, 1, 20) = "Missing facilities: "
                    => /\ unmatched # <<>>
                       /\ reason = "Missing facilities: "
                                       \o Join(unmatched, ", ")

\* the requirements of the call with another priority
WithPriority(priority) == [args EXCEPT !.priority = priority]

\* C25: the priority bonus is unconditional: every venue's score under
\* priority high is its score under medium or low plus 10, also for venues
\* that fail area, availability and facilities; classification and reason
\* do not depend on the priority, and medium and low give identical results.
C25_PriorityBonusUnconditional ==
    op = "findBestVenues" =>
        /\ \A i \in 1..Len(venues) :
               LET high == MatchVenueOf(venues[i], WithPriority("high"), env).match
                   medium == MatchVenueOf(venues[i], WithPriority("medium"),
                                          env).match
                   low == MatchVenueOf(venues[i], WithPriority("low"), env).match
               IN  /\ high.score = medium.score + 10 * args.participants * 6
                   /\ high.score = low.score + 10 * args.participants * 6
                   /\ high.alternative = medium.alternative
                   /\ high.alternative = low.alternative
                   /\ high.reason = medium.reason
                   /\ high.reason = low.reason
        /\ args.priority = "medium"
               => ret = FindBestVenuesResult(venues, WithPriority("low"), env)
        /\ args.priority = "low"
               => ret = FindBestVenuesResult(venues, WithPriority("medium"),
                                             env)

\* a high-priority call that returned a venue failing area, availability,
\* facilities and capacity, whose whole score is the bonus of 10
C25_Witness ==
    /\ op = "findBestVenues"
    /\ args.priority = "high"
    /\ \E j \in 1..Len(ret.alternatives) :
           LET checks == ChecksOf(ret.alternatives[j].venue, args, env)
           IN  /\ ~ checks.areaMatch
               /\ ~ checks.isAvailable
               /\ ~ checks.hasFacilities
               /\ ret.alternatives[j].score = 10 * args.participants * 6

\* the reason begins with the given text
ReasonStartsWith(match, text) ==
    /\ Len(match.reason) >= Len(text)
    /\ SubSeq(match.reason, 1, Len(text)) = text

\* the reason of an alternative names a condition its venue fails
NamesFailedCondition(match, checks) ==
    \/ ReasonStartsWith(match, "Too small: ") /\ ~ checks.areaMatch
    \/ match.reason = "Venue is booked at requested time"
           /\ ~ checks.isAvailable
    \/ ReasonStartsWith(match, "Missing facilities: ")
           /\ ~ checks.hasFacilities

\* C27: in every VenueMatch the reason is non-empty and agrees with the
\* classification: it is the 'Perfect match' text iff the alternative flag
\* is false (the venue is among the exact matches), and every alternative
\* carries one of the three failure reasons, naming a condition that the
\* venue actually fails.
C27_ReasonAgreesWithClassification ==
    op = "findBestVenues" =>
        /\ \A i \in 1..Len(venues) :
               LET result == MatchVenueOf(venues[i], args, env)
                   match == result.match
               IN  /\ match.reason # ""
                   /\ (match.reason = "Perfect match: Adequate space, available, and has required facilities")
                          <=> ~ match.alternative
                   /\ match.alternative
                          => NamesFailedCondition(match, result.checks)
        /\ \A j \in 1..Len(ret.exactMatches) :
               /\ ~ ret.exactMatches[j].alternative
               /\ ret.exactMatches[j].reason = "Perfect match: Adequate space, available, and has required facilities"
        /\ \A j \in 1..Len(ret.alternatives) :
               /\ ret.alternatives[j].alternative
               /\ NamesFailedCondition(
                      ret.alternatives[j],
                      ChecksOf(ret.alternatives[j].venue, args, env))

\* a call that returned a perfect match and three alternatives, one with
\* each of the three failure reasons
C27_Witness ==
    /\ op = "findBestVenues"
    /\ Len(ret.exactMatches) >= 1
    /\ \E j, k, l \in 1..Len(ret.alternatives) :
           /\ ReasonStartsWith(ret.alternatives[j], "Too small: ")
           /\ ret.alternatives[k].reason = "Venue is booked at requested time"
           /\ ReasonStartsWith(ret.alternatives[l], "Missing facilities: ")

----------------------------------------------------------------------------
(* The event wizard: component AddEvent of src/src/pages/AddEvent.tsx.      *)
(* Of the form, the model follows the fields that handleNextStep,           *)
(* runVenueAlgorithm and the schema of handleSubmit read; the others keep   *)
(* their initial values.  A null date is the empty string.  The engine      *)
(* variables op, args and ret hold the findBestVenues call made by the      *)
(* latest step of the wizard, if it made one.                               *)

\* the value NaN of parseInt, which no digit string of the model denotes
NaN == -1000000

\* s.trim()
RECURSIVE Trim(_)
Trim(s) ==
    IF s = "" THEN ""
    ELSE IF CharAt(s, 1) = " " THEN Trim(SubSeq(s, 2, Len(s)))
    ELSE IF CharAt(s, Len(s)) = " " THEN Trim(SubSeq(s, 1, Len(s) - 1))
    ELSE s

\* the value of the longest prefix of s made of digits, after acc
RECURSIVE LeadingDigitsValue(_, _)
LeadingDigitsValue(s, acc) ==
    IF s # "" /\ IsDigit(CharAt(s, 1))
    THEN LeadingDigitsValue(SubSeq(s, 2, Len(s)),
                            acc * 10 + DigitVal(CharAt(s, 1)))
    ELSE acc

\* parseInt(s): blanks, a sign, then the digits up to the first other
\* character; NaN if there is no digit there
ParseInt(s) ==
    LET t == Trim(s)
        signed == t # "" /\ CharAt(t, 1) \in {"-", "+"}
        body == IF signed THEN SubSeq(t, 2, Len(t)) ELSE t
    IN  IF body = "" \/ ~ IsDigit(CharAt(body, 1)) THEN NaN
        ELSE IF signed /\ CharAt(t, 1) = "-"
        THEN - LeadingDigitsValue(body, 0)
        ELSE LeadingDigitsValue(body, 0)

\* useState of formData
InitialFormData ==
    [title |-> "", type |-> "", topic |-> "", studentCount |-> "",
     date |-> "", timeSlot |-> "", facilitiesRequired |-> <<>>,
     priority |-> "medium", venueId |-> "", eventCategory |-> ""]

\* the values the inputs of step 1 can give to a field
FieldValues ==
    [title |-> {"", "Hi", "Fest"},
     type |-> {"technical", "non-technical"},
     topic |-> {"", "AI"},
     studentCount |-> {"", "0", ".5", "100", "250"},
     date |-> {"", "2025-09-26"},
     timeSlot |-> {"10:00"},
     eventCategory |-> {"Cultural"}]

\* the rows of the venues table, in ascending order of area_sqft
VenuesTable ==
    LET ById(id) == Pool[CHOOSE i \in 1..Len(Pool) : Pool[i].id = id]
    IN  <<ById("classroom"), ById("lab"), ById("hall"), ById("studio")>>

\* the checks of step 1 in handleNextStep
Step1Valid(form) ==
    /\ Trim(form.title) # ""
    /\ form.type # ""
    /\ ~ (form.studentCount = ""
              \/ (ParseInt(form.studentCount) # NaN
                      /\ ParseInt(form.studentCount) < 1))
    /\ form.date # ""
    /\ form.timeSlot # ""
    /\ form.type = "technical" => Trim(form.topic) # ""
    /\ form.type = "non-technical" => form.eventCategory # ""

\* the requirements runVenueAlgorithm builds from the form (eventType and
\* spaceType, which the engine never reads, are left out)
FormRequirements(form) ==
    [participants |-> ParseInt(form.studentCount),
     facilitiesRequired |-> form.facilitiesRequired,
     preferredDateTime |-> form.date \o " " \o form.timeSlot,
     priority |-> form.priority]

\* the VenueMatch of a venue when participants is NaN: every comparison
\* with NaN is false, so the area and the capacity never count; the score
\* is in points
MatchVenueNaN(venue, requirements, e) ==
    [venue |-> venue,
     score |->
         (IF IsVenueAvailable(venue, requirements.preferredDateTime, e)
          THEN 50 ELSE 0)
         + (IF HasFacilities(venue, requirements.facilitiesRequired)
            THEN 30 ELSE 0)
         + (IF requirements.priority = "high" THEN 10 ELSE 0),
     reason |-> "Too small: Needs NaN sq ft, has "
                    \o ToString(venue.area_sqft) \o " sq ft",
     alternative |-> TRUE]

\* findBestVenues when participants is NaN
FindBestVenuesOfNaN(catalog, requirements, e) ==
    LET pushed == [i \in 1..Len(catalog) |->
                      MatchVenueNaN(catalog[i], requirements, e)]
    IN  [exactMatches |-> <<>>,
         alternatives |-> Slice(Sort(pushed, "score", 1), TopAlternatives),
         noMatch |-> Len(catalog) = 0]

\* new VenueSelectionAlgorithm(catalog).findBestVenues(requirements)
EngineResult(catalog, requirements, e) ==
    IF requirements.participants = NaN
    THEN FindBestVenuesOfNaN(catalog, requirements, e)
    ELSE FindBestVenuesResult(catalog, requirements, e)

\* the schema of handleSubmit accepts the form
EventSchemaOk(form) ==
    /\ Len(Trim(form.title)) >= 3
    /\ form.type \in {"technical", "non-technical"}
    /\ ParseInt(form.studentCount) # NaN
    /\ ParseInt(form.studentCount) >= 1
    /\ form.date # ""
    /\ Len(form.timeSlot) >= 1
    /\ form.priority \in {"high", "medium", "low"}
    /\ Len(form.venueId) >= 1

\* the row handleSubmit inserts
EventData(form, e) ==
    [title |-> Trim(form.title),
     student_count |-> ParseInt(form.studentCount),
     event_date |-> ToISODate(form.date \o " 00:00", e),
     time_slot |-> form.timeSlot,
     venue_id |-> form.venueId,
     status |-> "pending"]

\* the runtimes of the wizard
WizardEnvironments == {e \in Environments : e.tzOffset = 0}

\* the page is mounted and its effect has started fetchVenues
InitWizard ==
    /\ venues = <<>>
    /\ env \in WizardEnvironments
    /\ op = "idle"
    /\ args = <<>>
    /\ ret = <<>>
    /\ held = <<>>
    /\ step = 1
    /\ formData = InitialFormData
    /\ venueMatches = <<>>
    /\ shownAlternatives = <<>>
    /\ loading = FALSE
    /\ venuesRequest = "pending"
    /\ eventInsert = [status |-> "none", row |-> <<>>]
    /\ NoAdmin

\* the step has made no call of the engine
NoEngineCall ==
    /\ op' = "idle"
    /\ args' = <<>>
    /\ ret' = <<>>

\* fetchVenues after its await, with data
FetchVenuesDone ==
    /\ step # 0
    /\ venuesRequest = "pending"
    /\ venuesRequest' = "done"
    /\ venues' = VenuesTable
    /\ NoEngineCall
    /\ UNCHANGED <<env, held, step, formData, venueMatches,
                   shownAlternatives, loading, eventInsert, adminVars>>

\* fetchVenues after its await, with an error: a toast only
FetchVenuesError ==
    /\ step # 0
    /\ venuesRequest = "pending"
    /\ venuesRequest' = "error"
    /\ NoEngineCall
    /\ UNCHANGED <<venues, env, held, step, formData, venueMatches,
                   shownAlternatives, loading, eventInsert, adminVars>>

\* an input of step 1: setFormData({...formData, [field]: value})
SetFormData(field, value) ==
    /\ step = 1
    /\ formData[field] # value
    /\ formData' = [formData EXCEPT ![field] = value]
    /\ NoEngineCall
    /\ UNCHANGED <<venues, env, held, step, venueMatches, shownAlternatives,
                   loading, venuesRequest, eventInsert, adminVars>>

\* handleNextStep, with runVenueAlgorithm
HandleNextStep ==
    /\ step = 1
    /\ IF ~ Step1Valid(formData)
       THEN /\ NoEngineCall
            /\ UNCHANGED <<step, venueMatches, shownAlternatives>>
       ELSE /\ IF formData.date = "" \/ formData.timeSlot = ""
                      \/ formData.studentCount = ""
               THEN /\ NoEngineCall
                    /\ UNCHANGED <<venueMatches, shownAlternatives>>
               ELSE LET requirements == FormRequirements(formData)
                        results == EngineResult(venues, requirements, env)
                    IN  /\ op' = "findBestVenues"
                        /\ args' = requirements
                        /\ ret' = results
                        /\ venueMatches' = results.exactMatches
                        /\ shownAlternatives' = results.alternatives
            /\ step' = step + 1
    /\ UNCHANGED <<venues, env, held, formData, loading, venuesRequest,
                   eventInsert, adminVars>>

\* the venues of the two lists on display
DisplayedIds ==
    {venueMatches[i].venue.id : i \in 1..Len(venueMatches)}
        \cup {shownAlternatives[i].venue.id :
                  i \in 1..Len(shownAlternatives)}

\* a click on the card of a displayed venue
SelectVenue(id) ==
    /\ step = 2
    /\ id \in DisplayedIds
    /\ formData.venueId # id
    /\ formData' = [formData EXCEPT !.venueId = id]
    /\ NoEngineCall
    /\ UNCHANGED <<venues, env, held, step, venueMatches, shownAlternatives,
                   loading, venuesRequest, eventInsert, adminVars>>

\* the Back button: setStep(1)
Back ==
    /\ step = 2
    /\ step' = 1
    /\ NoEngineCall
    /\ UNCHANGED <<venues, env, held, formData, venueMatches,
                   shownAlternatives, loading, venuesRequest, eventInsert,
                   adminVars>>

\* handleSubmit up to its await: the schema rejects the form (a toast, and
\* loading is false again), or the insert is sent
HandleSubmit ==
    /\ step = 2
    /\ formData.venueId # ""
    /\ ~ loading
    /\ IF EventSchemaOk(formData)
       THEN /\ loading' = TRUE
            /\ eventInsert' = [status |-> "pending",
                               row |-> EventData(formData, env)]
       ELSE UNCHANGED <<loading, eventInsert>>
    /\ NoEngineCall
    /\ UNCHANGED <<venues, env, held, step, formData, venueMatches,
                   shownAlternatives, venuesRequest, adminVars>>

\* handleSubmit after its await, the row stored: navigate("/")
InsertDone ==
    /\ step # 0
    /\ eventInsert.status = "pending"
    /\ eventInsert' = [eventInsert EXCEPT !.status = "done"]
    /\ loading' = FALSE
    /\ step' = 0
    /\ NoEngineCall
    /\ UNCHANGED <<venues, env, held, formData, venueMatches,
                   shownAlternatives, venuesRequest, adminVars>>

\* handleSubmit after its await, with an error: a toast
InsertError ==
    /\ step # 0
    /\ eventInsert.status = "pending"
    /\ eventInsert' = [eventInsert EXCEPT !.status = "error"]
    /\ loading' = FALSE
    /\ NoEngineCall
    /\ UNCHANGED <<venues, env, held, step, formData, venueMatches,
                   shownAlternatives, venuesRequest, adminVars>>

NextWizard ==
    \/ FetchVenuesDone
    \/ FetchVenuesError
    \/ \E field \in DOMAIN FieldValues :
           \E value \in FieldValues[field] : SetFormData(field, value)
    \/ HandleNextStep
    \/ \E i \in 1..Len(VenuesTable) : SelectVenue(VenuesTable[i].id)
    \/ Back
    \/ HandleSubmit
    \/ InsertDone
    \/ InsertError

SpecWizard == InitWizard /\ [][NextWizard]_vars

----------------------------------------------------------------------------
(* The admin panel: component Admin of src/src/pages/AddEvent.tsx.  An      *)
(* event is its id and its status.  An updateEventStatus call is kept in    *)
(* updates with the events array its closure captured and its phase: sent,  *)
(* then written or failed at the table, then done or error once the call    *)
(* has resumed after its await.                                             *)

\* the most updateEventStatus calls of a behaviour
MaxUpdates == 3

EventIds == {"e1", "e2"}

\* the events table when the panel is opened
InitialEventsTables ==
    {<<[id |-> "e1", status |-> s1], [id |-> "e2", status |-> s2]>> :
        s1 \in {"pending", "approved"}, s2 \in {"pending", "rejected"}}

\* rows.map(event => event.id === eventId ? {...event, status} : event)
WithStatus(rows, eventId, status) ==
    [i \in 1..Len(rows) |->
        IF rows[i].id = eventId
        THEN [rows[i] EXCEPT !.status = status]
        ELSE rows[i]]

\* the status of an event in an array of events
StatusIn(rows, eventId) ==
    rows[CHOOSE i \in 1..Len(rows) : rows[i].id = eventId].status

\* the panel is mounted and its effect has started fetchEvents
InitAdmin ==
    /\ venues = <<>>
    /\ env = [tzOffset |-> 0, midnight24 |-> FALSE]
    /\ op = "idle"
    /\ args = <<>>
    /\ ret = <<>>
    /\ held = <<>>
    /\ step = 0
    /\ formData = <<>>
    /\ venueMatches = <<>>
    /\ shownAlternatives = <<>>
    /\ loading = TRUE
    /\ venuesRequest = "none"
    /\ eventInsert = [status |-> "none", row |-> <<>>]
    /\ events = <<>>
    /\ eventsTable \in InitialEventsTables
    /\ updatingEventId = "null"
    /\ updates = <<>>

\* fetchEvents after its awaits, with data
FetchEventsDone ==
    /\ eventsTable # <<>>
    /\ loading
    /\ events' = eventsTable
    /\ loading' = FALSE
    /\ UNCHANGED <<engineVars, step, formData, venueMatches,
                   shownAlternatives, venuesRequest, eventInsert,
                   eventsTable, updatingEventId, updates>>

\* fetchEvents after its await, with an error: a toast
FetchEventsError ==
    /\ eventsTable # <<>>
    /\ loading
    /\ loading' = FALSE
    /\ UNCHANGED <<engineVars, step, formData, venueMatches,
                   shownAlternatives, venuesRequest, eventInsert,
                   adminVars>>

\* updateEventStatus(eventId, status) up to its await; the buttons are those
\* of a pending event and are enabled unless updatingEventId is the event
UpdateEventStatus(eventId, status) ==
    /\ ~ loading
    /\ \E i \in 1..Len(events) :
           events[i].id = eventId /\ events[i].status = "pending"
    /\ updatingEventId # eventId
    /\ Len(updates) < MaxUpdates
    /\ updatingEventId' = eventId
    /\ updates' = Append(updates, [eventId |-> eventId, status |-> status,
                                   events |-> events, phase |-> "sent"])
    /\ UNCHANGED <<engineVars, wizardVars, events, eventsTable>>

\* the table executes the update of call k
TableUpdate(k) ==
    /\ updates[k].phase = "sent"
    /\ eventsTable' = WithStatus(eventsTable, updates[k].eventId,
                                 updates[k].status)
    /\ updates' = [updates EXCEPT ![k].phase = "written"]
    /\ UNCHANGED <<engineVars, wizardVars, events, updatingEventId>>

\* the update of call k fails
TableError(k) ==
    /\ updates[k].phase = "sent"
    /\ updates' = [updates EXCEPT ![k].phase = "failed"]
    /\ UNCHANGED <<engineVars, wizardVars, events, eventsTable,
                   updatingEventId>>

\* updateEventStatus after its await, without error: setEvents from the
\* events array of the closure, then setUpdatingEventId(null)
UpdateDone(k) ==
    /\ updates[k].phase = "written"
    /\ events' = WithStatus(updates[k].events, updates[k].eventId,
                            updates[k].status)
    /\ updatingEventId' = "null"
    /\ updates' = [updates EXCEPT ![k].phase = "done"]
    /\ UNCHANGED <<engineVars, wizardVars, eventsTable>>

\* updateEventStatus after its await, with an error: a toast, then
\* setUpdatingEventId(null)
UpdateError(k) ==
    /\ updates[k].phase = "failed"
    /\ updatingEventId' = "null"
    /\ updates' = [updates EXCEPT ![k].phase = "error"]
    /\ UNCHANGED <<engineVars, wizardVars, events, eventsTable>>

NextAdmin ==
    \/ FetchEventsDone
    \/ FetchEventsError
    \/ \E eventId \in EventIds, status \in {"approved", "rejected"} :
           UpdateEventStatus(eventId, status)
    \/ \E k \in 1..Len(updates) : TableUpdate(k)
    \/ \E k \in 1..Len(updates) : TableError(k)
    \/ \E k \in 1..Len(updates) : UpdateDone(k)
    \/ \E k \in 1..Len(updates) : UpdateError(k)

SpecAdmin == InitAdmin /\ [][NextAdmin]_vars

C28_SubmittedVenueIsDisplayed ==
    [][(eventInsert'.status = "pending" /\ eventInsert.status # "pending")
           => eventInsert'.row.venue_id \in DisplayedIds]_vars

\* C29: whenever the wizard is at step 2 and the fetch of the venues has
\* completed successfully, the lists on display are those of findBestVenues
\* for the fetched catalog and the requirements of the form, however the
\* completion of the fetch and the Next button interleave.
C29_DisplayedResultsAreCurrent ==
    (step = 2 /\ venuesRequest = "done") =>
        LET results == EngineResult(venues, FormRequirements(formData), env)
        IN  /\ venueMatches = results.exactMatches
            /\ shownAlternatives = results.alternatives

\* an update of the event is in flight
InFlight(eventId) ==
    \E k \in 1..Len(updates) :
        /\ updates[k].eventId = eventId
        /\ updates[k].phase \in {"sent", "written", "failed"}

\* C30: once every started update has completed successfully, the status on
\* display of each updated event is the status in the table, however updates
\* of different events overlap; and while an update of an event is in
\* flight, its Approve and Reject buttons are disabled.
C30_DisplayMatchesTableAfterUpdates ==
    /\ (updates # <<>> /\ \A k \in 1..Len(updates) : updates[k].phase = "done")
           => \A k \in 1..Len(updates) :
                  StatusIn(events, updates[k].eventId)
                      = StatusIn(eventsTable, updates[k].eventId)
    /\ \A eventId \in EventIds :
           InFlight(eventId) => updatingEventId = eventId

====
